---- MODULE Spec2Model ----
(***************************************************************************)
(* visca-remote-joystick: the camera bridge (src/src/bridge.rs), the       *)
(* controller monitor that feeds it (src/src/controller.rs) and the        *)
(* single-slot watch channel between the two threads (src/src/main.rs).    *)
(*                                                                         *)
(* Numbers.  An f32 axis position or threshold is a fixed-point integer in *)
(* hundredths: One (100) is 1.0.  The arithmetic of interpret_axis_speed   *)
(* and interpret_zoom_level is carried out exactly on these rationals      *)
(* (round = half away from zero, `as u16` = truncation, `as i8` =          *)
(* saturation, NaN `as i8` = 0); f32 rounding error and NaN inputs are not *)
(* modelled.                                                               *)
(*                                                                         *)
(* Time.  Steps take no time except the two thread::sleep calls; since_pt  *)
(* and since_zoom hold the milliseconds slept since the last pan-tilt and  *)
(* zoom command was handed to the transport, saturated at the minimum      *)
(* update interval.  This is the least time that can have elapsed.         *)
(***************************************************************************)
EXTENDS Integers, FiniteSets, Sequences, TLC

(***************************************************************************)
(* Program constants                                                       *)
(***************************************************************************)
One == 100
MAX_ZOOM_LEVEL == 16500
MIN_UPDATE_INTERVAL_MS == 50
CONNECT_RETRY_MS == 5000
PAN_SPEED_LIMIT == 24
TILT_SPEED_LIMIT == 20
I8_MAX == 127
None == -1

(***************************************************************************)
(* Bounds of the model                                                     *)
(***************************************************************************)
\* connect failures counted by the history variable attempts (saturating)
MaxAttempts == 2
\* updates counted by the history variable pending (saturating)
MaxPending == 2
\* the most updates the controller publishes before it falls silent in
\* ConvergeSpec
MaxUpdates == 4
\* the axis positions given to interpret_zoom_level on its own, in hundredths:
\* -ZoomProbeMax .. ZoomProbeMax, reaching beyond -1.0 and 1.0
ZoomProbeMax == 120

Axes == {"axis_x", "axis_y", "axis_z"}

\* JoystickState::default()
DefaultState == [axis_x |-> 0, axis_y |-> 0, axis_z |-> 0]

\* the axis values the controller reports in the system specification
AxisVals == [axis_x |-> {-100, 0, 60}, axis_y |-> {0, 100}, axis_z |-> {0, 100}]

\* the command-line configurations of the system specification:
\* <<pan_tilt_threshold, pan_max_speed, tilt_max_speed, invert_z_axis>>
Configs == {<<25, 16, 16, TRUE>>, <<25, 255, 255, FALSE>>}

\* the command-line defaults of main.rs
DefaultArgs == <<25, 16, 16, TRUE>>

\* the wider inputs of the one-event specification ProbeSpec
WideX == {-150, -100, -50, -26, -25, -24, 0, 24, 25, 26, 27, 50, 100, 150}
WideY == {-100, 0, 26, 100}
WideZ == {-150, -99, 0, 100}
WideThresholds == {0, 25, 99, 100, 120}
WidePanMax == {0, 16, 24, 255}
WideTiltMax == {16, 255}

Directions == {"Stop", "Up", "Down", "Left", "Right",
               "UpLeft", "UpRight", "DownLeft", "DownRight"}

VARIABLES
    \* process configuration, fixed by CameraBridge::new
    pan_tilt_threshold, pan_max_speed, tilt_max_speed, invert_z_axis,
    \* BridgeState
    pan_tilt_direction, pan_speed, tilt_speed, last_zoom_position,
    \* the bridge thread: position, locals of run, the transport
    pc, state, changes_detected, transport, sleep_ms,
    \* the watch channel: the slot, and whether its version differs from the
    \* receiver's last seen version
    slot, unseen,
    \* history: what the controller last published; how often it published
    \* since wait last returned (saturating at MaxPending)
    latest, pending,
    \* history: whether the controller has published at all
    ever_published,
    \* history: whether the intent derived from the update of the current event
    \* equalled BridgeState when wait returned it
    ev_same,
    \* history: commands handed to the transport in the current (or last) event
    \* of the current transport; the last command of each kind handed over
    ev_pt, ev_zoom, sent_pt, sent_zoom,
    \* history: whether a command of the kind went out on the current transport
    conn_pt, conn_zoom,
    \* history: the command whose send failed, kept until the first event after
    \* the reconnect is over; recovery is "pending" from the failure to that
    \* event's wait, "first" during that event, "none" otherwise
    failed_cmd, recovery,
    \* history: beside a failed pan-tilt command, the zoom position of the same
    \* update, which that event did not get to compare
    failed_zoom,
    \* history: milliseconds slept since the last command of each kind
    since_pt, since_zoom,
    \* history: failed connects of the current connect_to_camera call
    attempts,
    \* the pure function applied on its own in FnSpec, with its arguments and
    \* result (NoCall in the specifications of the running program)
    call,
    \* the updates the controller still publishes before it falls silent in
    \* ConvergeSpec (not used by the other specifications, where it stays 0)
    updates_left

config == <<pan_tilt_threshold, pan_max_speed, tilt_max_speed, invert_z_axis>>
bridge_state == <<pan_tilt_direction, pan_speed, tilt_speed, last_zoom_position>>
locals == <<state, changes_detected>>
channel == <<slot, unseen, latest, pending, ever_published>>
emitted == <<ev_same, ev_pt, ev_zoom, sent_pt, sent_zoom, conn_pt, conn_zoom>>
failure == <<failed_cmd, recovery, failed_zoom>>
scenario == <<call, updates_left>>
clock == <<since_pt, since_zoom>>
vars == <<config, bridge_state, pc, locals, transport, sleep_ms, channel,
          emitted, failure, clock, attempts, scenario>>

(***************************************************************************)
(* Pure functions of bridge.rs                                             *)
(***************************************************************************)
Abs(n) == IF n < 0 THEN -n ELSE n
Min(a, b) == IF a < b THEN a ELSE b
Max(a, b) == IF a < b THEN b ELSE a

\* f32::clamp(-1.0, 1.0)
Clamp(p) == Max(-One, Min(One, p))

\* f32::round of the non-negative quotient num/den: half away from zero
Round(num, den) == (2 * num + den) \div (2 * den)

\* `as i8` of a non-negative f32: saturating
AsI8(n) == Min(n, I8_MAX)

\* interpret_axis_speed scaling the whole travel, the threshold not subtracted
interpret_axis_speed_no_rescale(axis_position, axis_max, move_threshold) ==
    LET p == Clamp(axis_position)
        a == Abs(p)
        speed == AsI8(Round(axis_max * a, One))
    IN  IF a < move_threshold THEN 0
        ELSE IF p < 0 THEN -speed ELSE speed

interpret_axis_speed(axis_position, axis_max, move_threshold) ==
    LET p == Clamp(axis_position)
        a == Abs(p)
        den == One - move_threshold
        \* 0.0 / 0.0 is NaN, and NaN as i8 is 0
        speed == IF den = 0 THEN 0
                 ELSE AsI8(Round(axis_max * (a - move_threshold), den))
    IN  IF a < move_threshold THEN 0
        ELSE IF p < 0 THEN -speed ELSE speed

\* interpret_zoom_level without the saturation above 0.99
interpret_zoom_level_unsaturated(axis_position) ==
    IF axis_position < -(One - 1) THEN 0
    ELSE (MAX_ZOOM_LEVEL * (axis_position + One)) \div (2 * One)

interpret_zoom_level(axis_position) ==
    IF axis_position > One - 1 THEN MAX_ZOOM_LEVEL
    ELSE IF axis_position < -(One - 1) THEN 0
    ELSE (MAX_ZOOM_LEVEL * (axis_position + One)) \div (2 * One)

\* Direction with the vertical arms exchanged: a positive y speed read as Up
DirectionYInverted(x_speed, y_speed) ==
    IF x_speed = 0 THEN
        IF y_speed = 0 THEN "Stop" ELSE IF y_speed > 0 THEN "Up" ELSE "Down"
    ELSE IF x_speed > 0 THEN
        IF y_speed = 0 THEN "Right" ELSE IF y_speed > 0 THEN "UpRight" ELSE "DownRight"
    ELSE
        IF y_speed = 0 THEN "Left" ELSE IF y_speed > 0 THEN "UpLeft" ELSE "DownLeft"

\* Direction with the arm (1.., 1..) giving Right
DirectionDownRightAsRight(x_speed, y_speed) ==
    IF x_speed = 0 THEN
        IF y_speed = 0 THEN "Stop" ELSE IF y_speed > 0 THEN "Down" ELSE "Up"
    ELSE IF x_speed > 0 THEN
        IF y_speed = 0 THEN "Right" ELSE IF y_speed > 0 THEN "Right" ELSE "UpRight"
    ELSE
        IF y_speed = 0 THEN "Left" ELSE IF y_speed > 0 THEN "DownLeft" ELSE "UpLeft"

\* the match of handle_pan_tilt on (x_speed, y_speed)
Direction(x_speed, y_speed) ==
    IF x_speed = 0 THEN
        IF y_speed = 0 THEN "Stop" ELSE IF y_speed > 0 THEN "Down" ELSE "Up"
    ELSE IF x_speed > 0 THEN
        IF y_speed = 0 THEN "Right" ELSE IF y_speed > 0 THEN "DownRight" ELSE "UpRight"
    ELSE
        IF y_speed = 0 THEN "Left" ELSE IF y_speed > 0 THEN "DownLeft" ELSE "UpLeft"

\* the first half of handle_pan_tilt: the intent derived from a JoystickState
DerivePanTilt(s) ==
    LET x_speed == interpret_axis_speed(s.axis_x, pan_max_speed, pan_tilt_threshold)
        y_speed == interpret_axis_speed(s.axis_y, tilt_max_speed, pan_tilt_threshold)
    IN  [direction |-> Direction(x_speed, y_speed),
         pan_speed |-> Abs(x_speed),
         tilt_speed |-> Abs(y_speed)]

\* DeriveZoom negating z whatever invert_z_axis says
DeriveZoomAlwaysInverted(s) ==
    interpret_zoom_level(-s.axis_z)

\* the first half of handle_zoom
DeriveZoom(s) ==
    interpret_zoom_level(IF invert_z_axis THEN -s.axis_z ELSE s.axis_z)

\* the PanTiltCommand run builds from BridgeState
PanTiltCommand == [direction |-> pan_tilt_direction,
                   pan_speed |-> pan_speed,
                   tilt_speed |-> tilt_speed]

\* no command (of a kind) yet
NoCmd == [kind |-> "none"]

\* no pure function is applied on its own
NoCall == [fn |-> "none"]

\* the positions of run at which `state` holds an update whose pan/tilt has
\* been handled
Handled == {"send_pan_tilt", "zoom", "send_zoom", "throttle"}

(***************************************************************************)
(* Construction: main and CameraBridge::new                                *)
(***************************************************************************)
\* Start with the maxima stored as given, without .min(24) and .min(20)
StartUnclamped(args, js, published) ==
    /\ pan_tilt_threshold = args[1]
    /\ pan_max_speed = args[2]
    /\ tilt_max_speed = args[3]
    /\ invert_z_axis = args[4]
    /\ pan_tilt_direction = "Stop"
    /\ pan_speed = 0
    /\ tilt_speed = 0
    /\ last_zoom_position = None
    /\ pc = "connect"
    /\ state = DefaultState
    /\ changes_detected = FALSE
    /\ transport = "none"
    /\ sleep_ms = 0
    /\ slot = js
    /\ unseen = published
    /\ latest = js
    /\ pending = (IF published THEN 1 ELSE 0)
    /\ ever_published = published
    /\ ev_same = FALSE
    /\ ev_pt = 0
    /\ ev_zoom = 0
    /\ sent_pt = NoCmd
    /\ sent_zoom = None
    /\ conn_pt = FALSE
    /\ conn_zoom = FALSE
    /\ failed_cmd = NoCmd
    /\ recovery = "none"
    /\ failed_zoom = None
    /\ since_pt = MIN_UPDATE_INTERVAL_MS
    /\ since_zoom = MIN_UPDATE_INTERVAL_MS
    /\ attempts = 0

\* the state after main has built the monitor, the channel and the bridge from
\* the arguments args = <<threshold, pan max, tilt max, invert>>, the controller
\* having left js in the channel; published says whether it wrote js at all
Start(args, js, published) ==
    /\ pan_tilt_threshold = args[1]
    /\ pan_max_speed = Min(args[2], PAN_SPEED_LIMIT)
    /\ tilt_max_speed = Min(args[3], TILT_SPEED_LIMIT)
    /\ invert_z_axis = args[4]
    /\ pan_tilt_direction = "Stop"
    /\ pan_speed = 0
    /\ tilt_speed = 0
    /\ last_zoom_position = None
    /\ pc = "connect"
    /\ state = DefaultState
    /\ changes_detected = FALSE
    /\ transport = "none"
    /\ sleep_ms = 0
    /\ slot = js
    /\ unseen = published
    /\ latest = js
    /\ pending = (IF published THEN 1 ELSE 0)
    /\ ever_published = published
    /\ ev_same = FALSE
    /\ ev_pt = 0
    /\ ev_zoom = 0
    /\ sent_pt = NoCmd
    /\ sent_zoom = None
    /\ conn_pt = FALSE
    /\ conn_zoom = FALSE
    /\ failed_cmd = NoCmd
    /\ recovery = "none"
    /\ failed_zoom = None
    /\ since_pt = MIN_UPDATE_INTERVAL_MS
    /\ since_zoom = MIN_UPDATE_INTERVAL_MS
    /\ attempts = 0

Init ==
    /\ \E args \in Configs : Start(args, DefaultState, FALSE)
    /\ call = NoCall
    /\ updates_left = 0

\* the controller has published one JoystickState x, y, z before the bridge
\* thread first runs
ProbeInit ==
    \E t \in WideThresholds, pm \in WidePanMax, tm \in WideTiltMax, inv \in BOOLEAN,
       x \in WideX, y \in WideY, z \in WideZ :
        /\ Start(<<t, pm, tm, inv>>, [axis_x |-> x, axis_y |-> y, axis_z |-> z], TRUE)
        /\ call = NoCall
        /\ updates_left = 0

(***************************************************************************)
(* The controller thread: ControllerMonitor::run                           *)
(***************************************************************************)
\* Update that loses the write while the last value is still unread
UpdateDroppedWhenUnread(axis, v) ==
    /\ slot' = IF unseen THEN slot ELSE [slot EXCEPT ![axis] = v]
    /\ unseen' = TRUE
    /\ latest' = [latest EXCEPT ![axis] = v]
    /\ pending' = Min(pending + 1, MaxPending)
    /\ ever_published' = TRUE
    /\ UNCHANGED <<config, bridge_state, pc, locals, transport, sleep_ms,
                   emitted, failure, clock, attempts>>

\* an AxisChanged event of the selected gamepad: sender.update(|f| f.axis = v)
Update(axis, v) ==
    /\ slot' = [slot EXCEPT ![axis] = v]
    /\ unseen' = TRUE
    /\ latest' = [latest EXCEPT ![axis] = v]
    /\ pending' = Min(pending + 1, MaxPending)
    /\ ever_published' = TRUE
    /\ UNCHANGED <<config, bridge_state, pc, locals, transport, sleep_ms,
                   emitted, failure, clock, attempts>>

\* the monitor's loop goes on for ever: any axis may change at any time
ControllerNext ==
    /\ \E axis \in Axes : \E v \in AxisVals[axis] : Update(axis, v)
    /\ UNCHANGED scenario

(***************************************************************************)
(* The bridge thread: CameraBridge::run                                    *)
(***************************************************************************)
\* ConnectOk with BridgeState reset to its startup values on every connect
ConnectOkResetState ==
    /\ pc = "connect"
    /\ pc' = "wait"
    /\ transport' = "open"
    /\ attempts' = 0
    /\ ev_same' = FALSE
    /\ ev_pt' = 0
    /\ ev_zoom' = 0
    /\ conn_pt' = FALSE
    /\ conn_zoom' = FALSE
    /\ pan_tilt_direction' = "Stop"
    /\ pan_speed' = 0
    /\ tilt_speed' = 0
    /\ last_zoom_position' = None
    /\ UNCHANGED <<scenario, config, locals, sleep_ms, channel,
                   sent_pt, sent_zoom, failure, clock>>

\* connect_to_camera: UdpTransport::new succeeds
ConnectOk ==
    /\ pc = "connect"
    /\ pc' = "wait"
    /\ transport' = "open"
    /\ attempts' = 0
    /\ ev_same' = FALSE
    /\ ev_pt' = 0
    /\ ev_zoom' = 0
    /\ conn_pt' = FALSE
    /\ conn_zoom' = FALSE
    /\ UNCHANGED <<scenario, config, bridge_state, locals, sleep_ms, channel,
                   sent_pt, sent_zoom, failure, clock>>

\* ConnectFail with a backoff that grows with the failures
ConnectFailGrowingBackoff ==
    /\ pc = "connect"
    /\ pc' = "backoff"
    /\ sleep_ms' = CONNECT_RETRY_MS * (attempts + 1)
    /\ attempts' = Min(attempts + 1, MaxAttempts)
    /\ UNCHANGED <<scenario, config, bridge_state, locals, transport, channel,
                   emitted, failure, clock>>

\* connect_to_camera: UdpTransport::new fails; sleep 5 seconds
ConnectFail ==
    /\ pc = "connect"
    /\ pc' = "backoff"
    /\ sleep_ms' = CONNECT_RETRY_MS
    /\ attempts' = Min(attempts + 1, MaxAttempts)
    /\ UNCHANGED <<scenario, config, bridge_state, locals, transport, channel,
                   emitted, failure, clock>>

\* the sleep of connect_to_camera returns; the loop tries again
BackoffDone ==
    /\ pc = "backoff"
    /\ pc' = "connect"
    /\ since_pt' = Min(since_pt + sleep_ms, MIN_UPDATE_INTERVAL_MS)
    /\ since_zoom' = Min(since_zoom + sleep_ms, MIN_UPDATE_INTERVAL_MS)
    /\ sleep_ms' = 0
    /\ UNCHANGED <<scenario, config, bridge_state, locals, transport, channel,
                   emitted, failure, attempts>>

\* Wait returning the slot at once, seen or not
WaitNoBlock ==
    /\ pc = "wait"
    /\ state' = slot
    /\ unseen' = FALSE
    /\ pending' = 0
    /\ changes_detected' = FALSE
    /\ pc' = "pan_tilt"
    /\ ev_same' = (DerivePanTilt(slot) = PanTiltCommand /\ DeriveZoom(slot) = last_zoom_position)
    /\ ev_pt' = 0
    /\ ev_zoom' = 0
    /\ recovery' = IF recovery = "pending" THEN "first" ELSE "none"
    /\ failed_cmd' = IF recovery = "pending" THEN failed_cmd ELSE NoCmd
    /\ failed_zoom' = IF recovery = "pending" THEN failed_zoom ELSE None
    /\ UNCHANGED <<scenario, config, bridge_state, transport, sleep_ms, slot, latest,
                   ever_published, sent_pt, sent_zoom, conn_pt, conn_zoom, clock, attempts>>

\* state_receiver.wait() returns the slot once its version is unseen
Wait ==
    /\ pc = "wait"
    /\ unseen
    /\ state' = slot
    /\ unseen' = FALSE
    /\ pending' = 0
    /\ changes_detected' = FALSE
    /\ pc' = "pan_tilt"
    /\ ev_same' = (DerivePanTilt(slot) = PanTiltCommand /\ DeriveZoom(slot) = last_zoom_position)
    /\ ev_pt' = 0
    /\ ev_zoom' = 0
    /\ recovery' = IF recovery = "pending" THEN "first" ELSE "none"
    /\ failed_cmd' = IF recovery = "pending" THEN failed_cmd ELSE NoCmd
    /\ failed_zoom' = IF recovery = "pending" THEN failed_zoom ELSE None
    /\ UNCHANGED <<scenario, config, bridge_state, transport, sleep_ms, slot, latest,
                   ever_published, sent_pt, sent_zoom, conn_pt, conn_zoom, clock, attempts>>

\* HandlePanTilt with handle_pan_tilt returning true whatever it compared
HandlePanTiltAlwaysChanged ==
    /\ pc = "pan_tilt"
    /\ LET d == DerivePanTilt(state)
       IN  /\ pan_tilt_direction' = d.direction
           /\ pan_speed' = d.pan_speed
           /\ tilt_speed' = d.tilt_speed
           /\ changes_detected' = TRUE
           /\ pc' = "send_pan_tilt"
           /\ UNCHANGED last_zoom_position
    /\ UNCHANGED <<scenario, config, state, transport, sleep_ms, channel,
                   emitted, failure, clock, attempts>>

\* handle_pan_tilt(&state), and the branch of run on its result.
\* PanSpeed::new / TiltSpeed::new reject a speed above the camera's limit and
\* the unwrap then panics.
HandlePanTilt ==
    /\ pc = "pan_tilt"
    /\ LET d == DerivePanTilt(state)
           changed == \/ d.direction # pan_tilt_direction
                      \/ d.pan_speed # pan_speed
                      \/ d.tilt_speed # tilt_speed
       IN  IF d.pan_speed > PAN_SPEED_LIMIT \/ d.tilt_speed > TILT_SPEED_LIMIT
           THEN /\ pc' = "panicked"
                /\ UNCHANGED <<bridge_state, changes_detected>>
           ELSE /\ pan_tilt_direction' = IF d.direction # pan_tilt_direction
                                         THEN d.direction ELSE pan_tilt_direction
                /\ pan_speed' = IF d.pan_speed # pan_speed
                                THEN d.pan_speed ELSE pan_speed
                /\ tilt_speed' = IF d.tilt_speed # tilt_speed
                                 THEN d.tilt_speed ELSE tilt_speed
                /\ changes_detected' = changed
                /\ pc' = IF changed THEN "send_pan_tilt" ELSE "zoom"
                /\ UNCHANGED last_zoom_position
    /\ UNCHANGED <<scenario, config, state, transport, sleep_ms, channel,
                   emitted, failure, clock, attempts>>

\* what both outcomes of transport.send_command(&PanTiltCommand {..}) record
EmitPanTilt ==
    /\ ev_pt' = ev_pt + 1
    /\ sent_pt' = PanTiltCommand
    /\ conn_pt' = TRUE
    /\ since_pt' = 0
    /\ UNCHANGED <<ev_same, ev_zoom, sent_zoom, conn_zoom, since_zoom>>

\* the send of the pan-tilt command succeeds
SendPanTiltOk ==
    /\ pc = "send_pan_tilt"
    /\ pc' = "zoom"
    /\ EmitPanTilt
    /\ UNCHANGED <<scenario, config, bridge_state, locals, transport, sleep_ms, channel,
                   failure, attempts>>

\* SendPanTiltFail after a handle_zoom that ran before the send
SendPanTiltFailZoomStored ==
    /\ pc = "send_pan_tilt"
    /\ pc' = "connect"
    /\ EmitPanTilt
    /\ transport' = "failed"
    /\ state' = DefaultState
    /\ changes_detected' = FALSE
    /\ failed_cmd' = [kind |-> "pan_tilt", cmd |-> PanTiltCommand]
    /\ failed_zoom' = DeriveZoom(state)
    /\ recovery' = "pending"
    /\ last_zoom_position' = DeriveZoom(state)
    /\ UNCHANGED <<scenario, config, pan_tilt_direction, pan_speed, tilt_speed,
                   sleep_ms, channel, attempts>>

\* SendPanTiltFail that rolls the pan/tilt fields back to all-stop
SendPanTiltFailRollback ==
    /\ pc = "send_pan_tilt"
    /\ pc' = "connect"
    /\ EmitPanTilt
    /\ transport' = "failed"
    /\ state' = DefaultState
    /\ changes_detected' = FALSE
    /\ failed_cmd' = [kind |-> "pan_tilt", cmd |-> PanTiltCommand]
    /\ failed_zoom' = DeriveZoom(state)
    /\ recovery' = "pending"
    /\ pan_tilt_direction' = "Stop"
    /\ pan_speed' = 0
    /\ tilt_speed' = 0
    /\ UNCHANGED <<scenario, config, last_zoom_position, sleep_ms, channel, attempts>>

\* SendPanTiltFail that logs the error and goes on with the zoom
SendPanTiltFailNoBreak ==
    /\ pc = "send_pan_tilt"
    /\ pc' = "zoom"
    /\ EmitPanTilt
    /\ transport' = "failed"
    /\ failed_cmd' = [kind |-> "pan_tilt", cmd |-> PanTiltCommand]
    /\ failed_zoom' = DeriveZoom(state)
    /\ recovery' = "pending"
    /\ UNCHANGED <<scenario, config, bridge_state, locals, sleep_ms, channel, attempts>>

\* the send of the pan-tilt command fails: log, break to the outer loop
SendPanTiltFail ==
    /\ pc = "send_pan_tilt"
    /\ pc' = "connect"
    /\ EmitPanTilt
    /\ transport' = "failed"
    /\ state' = DefaultState
    /\ changes_detected' = FALSE
    /\ failed_cmd' = [kind |-> "pan_tilt", cmd |-> PanTiltCommand]
    /\ failed_zoom' = DeriveZoom(state)
    /\ recovery' = "pending"
    /\ UNCHANGED <<scenario, config, bridge_state, sleep_ms, channel, attempts>>

\* HandleZoom as an else-branch: skipped when pan/tilt changed
HandleZoomSkippedAfterPanTilt ==
    /\ pc = "zoom"
    /\ LET zoom_level == DeriveZoom(state)
       IN  IF zoom_level # last_zoom_position /\ ~changes_detected
           THEN /\ last_zoom_position' = zoom_level
                /\ changes_detected' = TRUE
                /\ pc' = "send_zoom"
           ELSE /\ pc' = "throttle"
                /\ UNCHANGED <<last_zoom_position, changes_detected>>
    /\ UNCHANGED <<scenario, config, pan_tilt_direction, pan_speed, tilt_speed, state,
                   transport, sleep_ms, channel, emitted, failure, clock, attempts>>

\* handle_zoom(&state), and the branch of run on its result
HandleZoom ==
    /\ pc = "zoom"
    /\ LET zoom_level == DeriveZoom(state)
       IN  IF zoom_level # last_zoom_position
           THEN /\ last_zoom_position' = zoom_level
                /\ changes_detected' = TRUE
                /\ pc' = "send_zoom"
           ELSE /\ pc' = "throttle"
                /\ UNCHANGED <<last_zoom_position, changes_detected>>
    /\ UNCHANGED <<scenario, config, pan_tilt_direction, pan_speed, tilt_speed, state,
                   transport, sleep_ms, channel, emitted, failure, clock, attempts>>

\* what both outcomes of transport.send_command(&ZoomCommand::Direct(..)) record
EmitZoom ==
    /\ ev_zoom' = ev_zoom + 1
    /\ sent_zoom' = last_zoom_position
    /\ conn_zoom' = TRUE
    /\ since_zoom' = 0
    /\ UNCHANGED <<ev_same, ev_pt, sent_pt, conn_pt, since_pt>>

\* the send of the zoom command succeeds
SendZoomOk ==
    /\ pc = "send_zoom"
    /\ pc' = "throttle"
    /\ EmitZoom
    /\ UNCHANGED <<scenario, config, bridge_state, locals, transport, sleep_ms, channel,
                   failure, attempts>>

\* SendZoomFail that forgets the undelivered position
SendZoomFailForgets ==
    /\ pc = "send_zoom"
    /\ pc' = "connect"
    /\ EmitZoom
    /\ transport' = "failed"
    /\ state' = DefaultState
    /\ changes_detected' = FALSE
    /\ failed_cmd' = [kind |-> "zoom", cmd |-> last_zoom_position]
    /\ failed_zoom' = None
    /\ recovery' = "pending"
    /\ last_zoom_position' = None
    /\ UNCHANGED <<scenario, config, pan_tilt_direction, pan_speed, tilt_speed,
                   sleep_ms, channel, attempts>>

\* the send of the zoom command fails: log, break to the outer loop
SendZoomFail ==
    /\ pc = "send_zoom"
    /\ pc' = "connect"
    /\ EmitZoom
    /\ transport' = "failed"
    /\ state' = DefaultState
    /\ changes_detected' = FALSE
    /\ failed_cmd' = [kind |-> "zoom", cmd |-> last_zoom_position]
    /\ failed_zoom' = None
    /\ recovery' = "pending"
    /\ UNCHANGED <<scenario, config, bridge_state, sleep_ms, channel, attempts>>

\* Throttle sleeping after every event, changed or not
ThrottleAlwaysSleeps ==
    /\ pc = "throttle"
    /\ pc' = "sleep"
    /\ sleep_ms' = MIN_UPDATE_INTERVAL_MS
    /\ state' = DefaultState
    /\ changes_detected' = FALSE
    /\ UNCHANGED <<scenario, config, bridge_state, transport, channel, emitted,
                   failure, clock, attempts>>

\* Throttle without the sleep
ThrottleNoSleep ==
    /\ pc = "throttle"
    /\ pc' = "wait"
    /\ sleep_ms' = 0
    /\ state' = DefaultState
    /\ changes_detected' = FALSE
    /\ UNCHANGED <<scenario, config, bridge_state, transport, channel, emitted,
                   failure, clock, attempts>>

\* the end of the inner loop's body: sleep only if changes were detected.
\* The iteration's locals are not read again and return to their initial values.
Throttle ==
    /\ pc = "throttle"
    /\ pc' = IF changes_detected THEN "sleep" ELSE "wait"
    /\ sleep_ms' = IF changes_detected THEN MIN_UPDATE_INTERVAL_MS ELSE 0
    /\ state' = DefaultState
    /\ changes_detected' = FALSE
    /\ UNCHANGED <<scenario, config, bridge_state, transport, channel, emitted,
                   failure, clock, attempts>>

\* SleepDone with the receiver marking the channel's value seen on waking
SleepDoneMarksSeen ==
    /\ pc = "sleep"
    /\ pc' = "wait"
    /\ since_pt' = Min(since_pt + sleep_ms, MIN_UPDATE_INTERVAL_MS)
    /\ since_zoom' = Min(since_zoom + sleep_ms, MIN_UPDATE_INTERVAL_MS)
    /\ sleep_ms' = 0
    /\ unseen' = FALSE
    /\ UNCHANGED <<scenario, config, bridge_state, locals, transport, slot, latest,
                   pending, ever_published, emitted, failure, attempts>>

\* thread::sleep(self.min_update_interval) returns
SleepDone ==
    /\ pc = "sleep"
    /\ pc' = "wait"
    /\ since_pt' = Min(since_pt + sleep_ms, MIN_UPDATE_INTERVAL_MS)
    /\ since_zoom' = Min(since_zoom + sleep_ms, MIN_UPDATE_INTERVAL_MS)
    /\ sleep_ms' = 0
    /\ UNCHANGED <<scenario, config, bridge_state, locals, transport, channel,
                   emitted, failure, attempts>>

BridgeNext ==
    \/ ConnectOk
    \/ ConnectFail
    \/ BackoffDone
    \/ Wait
    \/ HandlePanTilt
    \/ SendPanTiltOk
    \/ SendPanTiltFail
    \/ HandleZoom
    \/ SendZoomOk
    \/ SendZoomFail
    \/ Throttle
    \/ SleepDone

Next == ControllerNext \/ BridgeNext

\* the two threads from startup
Spec == Init /\ [][Next]_vars

\* the sleep of connect_to_camera returns, and of the connect attempts made
\* again and again one eventually succeeds
LiveSpec == Spec /\ WF_vars(BackoffDone) /\ SF_vars(ConnectOk)

\* the bridge alone on one published update, over the wide inputs
ProbeSpec == ProbeInit /\ [][BridgeNext]_vars

(***************************************************************************)
(* The controller falls silent and no send fails                           *)
(***************************************************************************)
\* the controller will publish between one and MaxUpdates updates
ConvergeInit ==
    /\ \E args \in Configs : Start(args, DefaultState, FALSE)
    /\ call = NoCall
    /\ updates_left \in 1..MaxUpdates

\* one of the controller's remaining AxisChanged events
LastUpdates ==
    /\ updates_left > 0
    /\ updates_left' = updates_left - 1
    /\ call' = call
    /\ \E axis \in Axes : \E v \in AxisVals[axis] : Update(axis, v)

\* the bridge thread when every send_command returns Ok
BridgeNextSendsOk ==
    \/ ConnectOk
    \/ ConnectFail
    \/ BackoffDone
    \/ Wait
    \/ HandlePanTilt
    \/ SendPanTiltOk
    \/ HandleZoom
    \/ SendZoomOk
    \/ Throttle
    \/ SleepDone

ConvergeNext == LastUpdates \/ BridgeNextSendsOk

\* the bridge thread is scheduled as long as it can run, and of the connect
\* attempts made again and again one eventually succeeds
ConvergeSpec ==
    /\ ConvergeInit
    /\ [][ConvergeNext]_vars
    /\ WF_vars(BridgeNextSendsOk)
    /\ SF_vars(ConnectOk)

(***************************************************************************)
(* The pure functions on their own                                         *)
(***************************************************************************)
\* the values of an i8
I8 == (-I8_MAX - 1)..I8_MAX

\* the axis positions given to interpret_zoom_level
ZoomPositions == -ZoomProbeMax..ZoomProbeMax

\* either the match of handle_pan_tilt is about to be given a pair of i8
\* speeds, or interpret_zoom_level two axis positions, lower <= upper
FnInit ==
    /\ Start(DefaultArgs, DefaultState, FALSE)
    /\ updates_left = 0
    /\ \/ \E x \in I8, y \in I8 :
            call = [fn |-> "Direction", x_speed |-> x, y_speed |-> y, done |-> FALSE]
       \/ \E a \in ZoomPositions, b \in ZoomPositions :
            /\ a <= b
            /\ call = [fn |-> "interpret_zoom_level", lower |-> a, upper |-> b,
                       done |-> FALSE]

\* the match (x_speed, y_speed) of handle_pan_tilt
ApplyDirection ==
    /\ call.fn = "Direction"
    /\ ~call.done
    /\ call' = [fn |-> "Direction", x_speed |-> call.x_speed, y_speed |-> call.y_speed,
                done |-> TRUE, result |-> Direction(call.x_speed, call.y_speed)]
    /\ UNCHANGED <<config, bridge_state, pc, locals, transport, sleep_ms, channel,
                   emitted, failure, clock, attempts, updates_left>>

\* interpret_zoom_level, once on each of the two positions
ApplyZoomLevel ==
    /\ call.fn = "interpret_zoom_level"
    /\ ~call.done
    /\ call' = [fn |-> "interpret_zoom_level", lower |-> call.lower, upper |-> call.upper,
                done |-> TRUE,
                result_lower |-> interpret_zoom_level(call.lower),
                result_upper |-> interpret_zoom_level(call.upper)]
    /\ UNCHANGED <<config, bridge_state, pc, locals, transport, sleep_ms, channel,
                   emitted, failure, clock, attempts, updates_left>>

FnNext == ApplyDirection \/ ApplyZoomLevel

FnSpec == FnInit /\ [][FnNext]_vars

(***************************************************************************)
(* Steps of the bridge, as the properties name them                        *)
(***************************************************************************)
\* wait returns: a state update is evaluated
Evaluates == pc = "wait" /\ pc' = "pan_tilt"
\* a pan-tilt command is handed to the transport (the send succeeds or fails)
EmitsPanTilt == pc = "send_pan_tilt" /\ pc' # "send_pan_tilt"
\* a zoom command is handed to the transport (the send succeeds or fails)
EmitsZoom == pc = "send_zoom" /\ pc' # "send_zoom"
Disconnected == pc \in {"connect", "backoff"}

(***************************************************************************)
(* C1: in every state-update event the bridge hands at most one pan-tilt   *)
(* and at most one zoom command to the transport, and none at all when the *)
(* intent derived from the update equalled BridgeState.                    *)
(***************************************************************************)
C1_AtMostOnePerEvent ==
    /\ ev_pt <= 1
    /\ ev_zoom <= 1
    /\ ev_same => ev_pt = 0 /\ ev_zoom = 0
    /\ ev_same /\ pc \in Handled \cup {"pan_tilt"} =>
           /\ DerivePanTilt(state) = PanTiltCommand
           /\ DeriveZoom(state) = last_zoom_position
           /\ pc \notin {"send_pan_tilt", "send_zoom"}

\* an event that emitted both commands has reached the end of the loop body
C1_Witness == pc = "throttle" /\ ev_pt = 1 /\ ev_zoom = 1

\* a later event whose update derives the stored intent has run to its end
C1_IdleEvent == pc = "throttle" /\ ev_same /\ sent_pt # NoCmd /\ sent_zoom # None

(***************************************************************************)
(* C2 as claimed: after any command was handed to the transport, whatever  *)
(* the outcome of the sends, no state update is evaluated before the       *)
(* minimum update interval has elapsed, and no two commands of one kind    *)
(* are emitted without that pause between them.                            *)
(***************************************************************************)
C2_Original ==
    /\ [][Evaluates => since_pt >= MIN_UPDATE_INTERVAL_MS
                       /\ since_zoom >= MIN_UPDATE_INTERVAL_MS]_vars
    /\ [][EmitsPanTilt => since_pt >= MIN_UPDATE_INTERVAL_MS]_vars
    /\ [][EmitsZoom => since_zoom >= MIN_UPDATE_INTERVAL_MS]_vars

(***************************************************************************)
(* C2 amended: when the event before on the same transport emitted a       *)
(* command (so all its sends succeeded), the next state update is          *)
(* evaluated only after the minimum update interval; two commands of one   *)
(* kind sent over the same transport are at least that interval apart; and *)
(* a failed send leaves the loop without the sleep.                        *)
(***************************************************************************)
C2_PauseAfterSuccessfulEvent ==
    /\ [][Evaluates /\ ev_pt + ev_zoom > 0 =>
              since_pt >= MIN_UPDATE_INTERVAL_MS
              /\ since_zoom >= MIN_UPDATE_INTERVAL_MS]_vars
    /\ [][EmitsPanTilt /\ conn_pt => since_pt >= MIN_UPDATE_INTERVAL_MS]_vars
    /\ [][EmitsZoom /\ conn_zoom => since_zoom >= MIN_UPDATE_INTERVAL_MS]_vars
    /\ [][(EmitsPanTilt \/ EmitsZoom) /\ transport' = "failed" =>
              pc' = "connect" /\ sleep_ms' = 0]_vars

\* a second pan-tilt command is about to go out on the same transport, the
\* interval having been slept since the first
C2_Witness ==
    /\ pc = "send_pan_tilt"
    /\ conn_pt
    /\ since_pt = MIN_UPDATE_INTERVAL_MS
    /\ since_zoom = MIN_UPDATE_INTERVAL_MS

(***************************************************************************)
(* C3: after a failed send and a reconnect the failed command is not       *)
(* replayed: with nothing published the bridge stays blocked in wait, and  *)
(* a command goes out in the first event after the reconnect only if that  *)
(* update's derived intent differed from BridgeState, and it is never the  *)
(* command that failed.                                                    *)
(***************************************************************************)
C3_NoReplay ==
    /\ [](pc = "wait" /\ pending = 0 => ~ENABLED BridgeNext)
    /\ [](recovery = "first" /\ ev_same => ev_pt = 0 /\ ev_zoom = 0)
    /\ [][EmitsPanTilt /\ recovery = "first" =>
              [kind |-> "pan_tilt", cmd |-> PanTiltCommand] # failed_cmd]_vars
    /\ [][EmitsZoom /\ recovery = "first" =>
              [kind |-> "zoom", cmd |-> last_zoom_position] # failed_cmd]_vars

\* reconnected after a failed pan-tilt send, nothing published in between:
\* the bridge waits, the failed command still its stored intent
C3_Witness ==
    /\ pc = "wait"
    /\ recovery = "pending"
    /\ pending = 0
    /\ failed_cmd = [kind |-> "pan_tilt", cmd |-> PanTiltCommand]
    /\ failed_cmd.cmd.direction # "Stop"

(***************************************************************************)
(* C4 as claimed: the first state update after a reconnect that follows a  *)
(* failed send sends the command of the failed kind again.                 *)
(***************************************************************************)
C4_Original ==
    /\ recovery = "first" /\ failed_cmd.kind = "pan_tilt"
         /\ pc \in {"zoom", "send_zoom", "throttle"} => ev_pt = 1
    /\ recovery = "first" /\ failed_cmd.kind = "zoom"
         /\ pc = "throttle" => ev_zoom = 1

(***************************************************************************)
(* C4 amended: BridgeState survives a reconnect unchanged, and the first   *)
(* state update after a reconnect that follows a failed send sends a       *)
(* command of the failed kind exactly when its derived intent differs from *)
(* the failed command, which BridgeState still holds.                      *)
(***************************************************************************)
C4_ResendOnlyIfDifferent ==
    /\ [][Disconnected => UNCHANGED bridge_state]_vars
    /\ [](recovery = "pending" /\ failed_cmd.kind = "pan_tilt" =>
              failed_cmd.cmd = PanTiltCommand)
    /\ [](recovery = "pending" /\ failed_cmd.kind = "zoom" =>
              failed_cmd.cmd = last_zoom_position)
    /\ [](recovery = "first" /\ failed_cmd.kind = "pan_tilt"
              /\ pc \in {"zoom", "send_zoom", "throttle"} =>
              (ev_pt = 1 <=> DerivePanTilt(state) # failed_cmd.cmd))
    /\ [](recovery = "first" /\ failed_cmd.kind = "zoom" /\ pc = "throttle" =>
              (ev_zoom = 1 <=> DeriveZoom(state) # failed_cmd.cmd))

\* the first event after the reconnect ends with the failed pan-tilt command
\* not sent again
C4_Witness ==
    /\ recovery = "first"
    /\ pc = "throttle"
    /\ failed_cmd.kind = "pan_tilt"
    /\ failed_cmd.cmd.direction # "Stop"
    /\ ev_pt = 0

(***************************************************************************)
(* C5: in BridgeState and in every pan-tilt command emitted, the direction *)
(* is Stop iff both speeds are zero, pan_speed is zero iff the direction   *)
(* has no Left/Right part, tilt_speed is zero iff it has no Up/Down part.  *)
(***************************************************************************)
Horizontal == {"Left", "Right", "UpLeft", "UpRight", "DownLeft", "DownRight"}
Vertical == {"Up", "Down", "UpLeft", "UpRight", "DownLeft", "DownRight"}

Consistent(c) ==
    /\ c.direction \in Directions
    /\ c.direction = "Stop" <=> (c.pan_speed = 0 /\ c.tilt_speed = 0)
    /\ c.pan_speed = 0 <=> c.direction \notin Horizontal
    /\ c.tilt_speed = 0 <=> c.direction \notin Vertical

C5_DirectionSpeedConsistent ==
    /\ Consistent(PanTiltCommand)
    /\ sent_pt # NoCmd => Consistent(sent_pt)

\* a diagonal command has been emitted
C5_Witness ==
    /\ sent_pt # NoCmd
    /\ sent_pt.direction \in Horizontal \cap Vertical
    /\ sent_pt = PanTiltCommand

(***************************************************************************)
(* C6: a failed send ends the inner loop: the bridge is Disconnected while *)
(* the transport is the failed one, every command goes out on an open      *)
(* transport, no zoom command follows a failed pan-tilt send in the same   *)
(* event, and only a successful connect replaces the failed transport.     *)
(***************************************************************************)
C6_SendFailureDisconnects ==
    /\ [](transport = "failed" => Disconnected)
    /\ [](transport = "failed" /\ failed_cmd.kind = "pan_tilt" => ev_zoom = 0)
    /\ [][EmitsPanTilt \/ EmitsZoom => transport = "open"]_vars
    /\ [][transport = "failed" /\ transport' # "failed" =>
              pc = "connect" /\ pc' = "wait" /\ transport' = "open"]_vars

\* the pan-tilt send of the first event failed, its zoom never evaluated
C6_Witness ==
    /\ transport = "failed"
    /\ failed_cmd.kind = "pan_tilt"
    /\ last_zoom_position = None
    /\ unseen

(***************************************************************************)
(* C7: while Disconnected the bridge retries the connect for ever, with    *)
(* the same 5 second sleep after every failure; it never leaves the        *)
(* connect loop but by a successful connect, emits no command and          *)
(* evaluates no state update meanwhile; and when connects eventually       *)
(* succeed it becomes Connected and waits for a state update.              *)
(***************************************************************************)
C7_RetryForever ==
    /\ [](pc = "backoff" => sleep_ms = CONNECT_RETRY_MS)
    /\ [](pc = "connect" => ENABLED ConnectOk /\ ENABLED ConnectFail)
    /\ [](pc = "backoff" => ENABLED BackoffDone)
    /\ [](Disconnected => transport # "open")
    /\ [][Disconnected =>
              /\ pc' \in {"connect", "backoff", "wait"}
              /\ pc' = "wait" => transport' = "open"
              /\ UNCHANGED <<bridge_state, state, sent_pt, sent_zoom>>
              /\ since_pt' >= since_pt
              /\ since_zoom' >= since_zoom
              /\ pending' >= pending]_vars
    /\ Disconnected ~> (pc = "wait" /\ transport = "open")

\* the bridge sleeps after its MaxAttempts-th failed connect in a row, an
\* update published and not evaluated
C7_Witness == pc = "backoff" /\ attempts = MaxAttempts /\ pending > 0

C9_SpeedsWithinLimits ==
    /\ pc # "panicked"
    /\ pan_max_speed \in 0..PAN_SPEED_LIMIT
    /\ tilt_max_speed \in 0..TILT_SPEED_LIMIT
    /\ pan_speed \in 0..pan_max_speed
    /\ tilt_speed \in 0..tilt_max_speed
    /\ sent_pt # NoCmd =>
           /\ sent_pt.pan_speed \in 0..pan_max_speed
           /\ sent_pt.tilt_speed \in 0..tilt_max_speed
    /\ pc \in Handled \cup {"pan_tilt"} =>
           LET rx == interpret_axis_speed(state.axis_x, pan_max_speed, pan_tilt_threshold)
               ry == interpret_axis_speed(state.axis_y, tilt_max_speed, pan_tilt_threshold)
           IN  /\ Abs(rx) <= pan_max_speed
               /\ Abs(ry) <= tilt_max_speed
               /\ rx > 0 => state.axis_x > 0
               /\ rx < 0 => state.axis_x < 0
               /\ ry > 0 => state.axis_y > 0
               /\ ry < 0 => state.axis_y < 0
    /\ pc \in Handled =>
           /\ pan_tilt_direction \in {"Right", "UpRight", "DownRight"} => state.axis_x > 0
           /\ pan_tilt_direction \in {"Left", "UpLeft", "DownLeft"} => state.axis_x < 0
           /\ pan_tilt_direction \in {"Down", "DownLeft", "DownRight"} => state.axis_y > 0
           /\ pan_tilt_direction \in {"Up", "UpLeft", "UpRight"} => state.axis_y < 0

\* an x position beyond 1.0 has been turned into the pan speed 24 and emitted
C9_Witness ==
    /\ pc = "zoom"
    /\ state.axis_x > One
    /\ pan_speed = PAN_SPEED_LIMIT
    /\ sent_pt # NoCmd
    /\ sent_pt.pan_speed = PAN_SPEED_LIMIT

(***************************************************************************)
(* C10 as claimed: for a position in [-1, 1], a threshold in [0, 1) and a  *)
(* max speed above 0, interpret_axis_speed returns 0 iff                   *)
(* |clamp(position)| < threshold.                                          *)
(***************************************************************************)
InClaimedDomain ==
    /\ pc \in Handled
    /\ pan_tilt_threshold \in 0..(One - 1)
    /\ state.axis_x \in (-One)..One
    /\ state.axis_y \in (-One)..One

C10_Original ==
    InClaimedDomain /\ pan_max_speed > 0 /\ tilt_max_speed > 0 =>
        /\ pan_speed = 0 <=> Abs(Clamp(state.axis_x)) < pan_tilt_threshold
        /\ tilt_speed = 0 <=> Abs(Clamp(state.axis_y)) < pan_tilt_threshold

(***************************************************************************)
(* C10 amended: for a position in [-1, 1] and a threshold in [0, 1),       *)
(* interpret_axis_speed returns 0 iff |clamp(position)| < threshold or     *)
(* max * (|clamp(position)| - threshold) / (1 - threshold) < 0.5; with     *)
(* threshold 0.25, max 24 and y = 0: x = 0.24 gives speed 0 and Stop, and  *)
(* x = 1.0 gives speed 24 and Right.                                       *)
(***************************************************************************)
RoundsToZero(position, max_speed) ==
    2 * max_speed * (Abs(Clamp(position)) - pan_tilt_threshold)
        < One - pan_tilt_threshold

C10_DeadZone ==
    InClaimedDomain =>
        /\ Abs(Clamp(state.axis_x)) < pan_tilt_threshold => pan_speed = 0
        /\ Abs(Clamp(state.axis_y)) < pan_tilt_threshold => tilt_speed = 0
        /\ pan_speed = 0 <=> \/ Abs(Clamp(state.axis_x)) < pan_tilt_threshold
                             \/ RoundsToZero(state.axis_x, pan_max_speed)
        /\ tilt_speed = 0 <=> \/ Abs(Clamp(state.axis_y)) < pan_tilt_threshold
                              \/ RoundsToZero(state.axis_y, tilt_max_speed)
        /\ pan_tilt_threshold = 25 /\ pan_max_speed = 24 /\ state.axis_y = 0 =>
               /\ state.axis_x = 24 => pan_speed = 0 /\ pan_tilt_direction = "Stop"
               /\ state.axis_x = One => pan_speed = 24 /\ pan_tilt_direction = "Right"

\* threshold 0.25, max 24: x = 0.26 is outside the dead zone and gives speed 0
C10_Witness ==
    /\ pc \in Handled
    /\ pan_tilt_threshold = 25
    /\ pan_max_speed = 24
    /\ state.axis_x = 26
    /\ pan_speed = 0

(***************************************************************************)
(* C11: the match of handle_pan_tilt on (x_speed, y_speed) gives a         *)
(* direction for every pair of i8 speeds, and the direction is the one the *)
(* signs name: (0,0) Stop, (0,+) Down, (0,-) Up, (+,0) Right,              *)
(* (+,+) DownRight, (+,-) UpRight, (-,0) Left, (-,+) DownLeft,             *)
(* (-,-) UpLeft.                                                           *)
(***************************************************************************)
Sign(n) == IF n > 0 THEN 1 ELSE IF n < 0 THEN -1 ELSE 0

DirectionOfSigns ==
    (<<0, 0>> :> "Stop") @@ (<<0, 1>> :> "Down") @@ (<<0, -1>> :> "Up") @@
    (<<1, 0>> :> "Right") @@ (<<1, 1>> :> "DownRight") @@ (<<1, -1>> :> "UpRight") @@
    (<<-1, 0>> :> "Left") @@ (<<-1, 1>> :> "DownLeft") @@ (<<-1, -1>> :> "UpLeft")

C11_DirectionBySign ==
    (call.fn = "Direction" /\ call.done) =>
        /\ call.result \in Directions
        /\ call.result = DirectionOfSigns[<<Sign(call.x_speed), Sign(call.y_speed)>>]

\* the classifier has dealt with the corner (i8::MIN, i8::MAX)
C11_Witness ==
    /\ call.fn = "Direction"
    /\ call.done
    /\ call.x_speed = -I8_MAX - 1
    /\ call.y_speed = I8_MAX
    /\ call.result = "DownLeft"

(***************************************************************************)
(* C12: interpret_zoom_level never decreases as the axis position grows,   *)
(* gives MAX_ZOOM_LEVEL at 1.0 and 0 at -1.0, and every position it gives  *)
(* lies in 0..MAX_ZOOM_LEVEL, the steps at -0.99 and 0.99 included.        *)
(***************************************************************************)
C12_ZoomMonotoneBounded ==
    (call.fn = "interpret_zoom_level" /\ call.done) =>
        /\ call.result_lower <= call.result_upper
        /\ call.result_lower \in 0..MAX_ZOOM_LEVEL
        /\ call.result_upper \in 0..MAX_ZOOM_LEVEL
        /\ (call.upper = One => call.result_upper = MAX_ZOOM_LEVEL)
        /\ (call.lower = -One => call.result_lower = 0)

\* the two positions lie on either side of the step at 0.99
C12_Witness ==
    /\ call.fn = "interpret_zoom_level"
    /\ call.done
    /\ call.lower = One - 1
    /\ call.upper = One
    /\ call.result_lower < call.result_upper
    /\ call.result_upper = MAX_ZOOM_LEVEL

(***************************************************************************)
(* C13 as claimed: once the bridge has dealt with a state update whose     *)
(* z-axis input is 1.0, a zoom command with position MAX_ZOOM_LEVEL has    *)
(* been emitted.                                                           *)
(***************************************************************************)
C13_Original ==
    (pc = "throttle" /\ state.axis_z = One) => sent_zoom = MAX_ZOOM_LEVEL

\* the z-axis value handle_zoom gives to interpret_zoom_level
ZoomInput(s) == IF invert_z_axis THEN -s.axis_z ELSE s.axis_z

(***************************************************************************)
(* C13 amended: when the value given to interpret_zoom_level (z, or -z     *)
(* with invert_z_axis) is 1.0, handle_zoom stores MAX_ZOOM_LEVEL and the   *)
(* bridge emits a zoom command exactly if the stored position was          *)
(* different; the command carries MAX_ZOOM_LEVEL.  At the end of such an   *)
(* event BridgeState equals what the update derives, it stays so until the *)
(* next update is evaluated, and an update that derives what BridgeState   *)
(* holds produces no command.                                              *)
(***************************************************************************)
C13_FullZoomOnce ==
    /\ [][(pc = "zoom" /\ pc' # "zoom" /\ ZoomInput(state) = One) =>
            /\ last_zoom_position' = MAX_ZOOM_LEVEL
            /\ (pc' = "send_zoom") = (last_zoom_position # MAX_ZOOM_LEVEL)]_vars
    /\ [][(EmitsZoom /\ ZoomInput(state) = One) => sent_zoom' = MAX_ZOOM_LEVEL]_vars
    /\ [](pc = "throttle" /\ ZoomInput(state) = One =>
            /\ last_zoom_position = MAX_ZOOM_LEVEL
            /\ sent_zoom = MAX_ZOOM_LEVEL
            /\ PanTiltCommand = DerivePanTilt(state))
    /\ [][(pc \in {"throttle", "sleep"}) => UNCHANGED bridge_state]_vars
    /\ [][(Evaluates /\ DerivePanTilt(slot) = PanTiltCommand
                     /\ DeriveZoom(slot) = last_zoom_position) => ev_same']_vars
    /\ [](ev_same /\ pc \in Handled \cup {"pan_tilt"} =>
            /\ ev_pt = 0
            /\ ev_zoom = 0
            /\ pc \notin {"send_pan_tilt", "send_zoom"})

\* after the zoom command with MAX_ZOOM_LEVEL, an update with z = 1.0 again
\* has been dealt with and nothing was emitted for it
C13_Witness ==
    /\ pc = "throttle"
    /\ ~invert_z_axis
    /\ state.axis_z = One
    /\ ev_same
    /\ ev_zoom = 0
    /\ sent_zoom = MAX_ZOOM_LEVEL

(***************************************************************************)
(* C14: last_zoom_position is None from construction until handle_zoom     *)
(* first derives a position, and never None again after that; only         *)
(* handle_zoom changes it.  None differs from every derived position, so   *)
(* the first update whose zoom is evaluated emits a zoom command.          *)
(***************************************************************************)
C14_ZoomNoneUntilFirstDerived ==
    /\ [](last_zoom_position \in {None} \cup 0..MAX_ZOOM_LEVEL)
    /\ [](last_zoom_position = None => (sent_zoom = None /\ ev_zoom = 0))
    /\ [][last_zoom_position # None => last_zoom_position' # None]_vars
    /\ [][last_zoom_position' # last_zoom_position => pc = "zoom"]_vars
    /\ [][(pc = "zoom" /\ pc' # "zoom") =>
            /\ last_zoom_position' = DeriveZoom(state)
            /\ last_zoom_position' # None
            /\ (last_zoom_position = None => pc' = "send_zoom")]_vars
    /\ [][(EmitsZoom /\ sent_zoom = None) =>
            (sent_zoom' = last_zoom_position /\ sent_zoom' # None)]_vars

\* the first zoom command is about to go out, in the first event after a
\* reconnect: None has outlived a failed pan-tilt send
C14_Witness ==
    /\ pc = "send_zoom"
    /\ sent_zoom = None
    /\ last_zoom_position # None
    /\ recovery = "first"
    /\ failed_cmd.kind = "pan_tilt"

(***************************************************************************)
(* C15 as claimed: the zoom comparison is made for every update, whether   *)
(* or not a pan-tilt command was emitted for it and whatever the outcome   *)
(* of that emission: after the pan-tilt command has been handed to the     *)
(* transport, the bridge goes on to handle_zoom.                           *)
(***************************************************************************)
C15_Original ==
    [][EmitsPanTilt => pc' = "zoom"]_vars

(***************************************************************************)
(* C15 amended: every update wait returns is evaluated for pan/tilt; the   *)
(* zoom comparison follows when no pan-tilt command was due and when the   *)
(* pan-tilt send succeeded, and is skipped (BridgeState's zoom untouched)  *)
(* when the pan-tilt send failed.  Each comparison decides on its own: a   *)
(* pan-tilt command goes out exactly if the pan/tilt intent differs, a     *)
(* zoom command exactly if the zoom position differs.                      *)
(***************************************************************************)
C15_BothEvaluatedUnlessSendFails ==
    /\ [][Evaluates => (pc' = "pan_tilt" /\ state' = slot)]_vars
    /\ [][(pc = "pan_tilt" /\ pc' # "pan_tilt") =>
            /\ (pc' = "send_pan_tilt") = (DerivePanTilt(state) # PanTiltCommand)
            /\ (pc' = "zoom") = (DerivePanTilt(state) = PanTiltCommand)]_vars
    /\ [][EmitsPanTilt =>
            /\ (pc' = "zoom") = (transport' = "open")
            /\ (pc' = "connect") = (transport' = "failed")
            /\ last_zoom_position' = last_zoom_position]_vars
    /\ [][(pc = "zoom" /\ pc' # "zoom") =>
            (pc' = "send_zoom") = (DeriveZoom(state) # last_zoom_position)]_vars
    /\ [](pc \in {"send_zoom", "throttle"} => last_zoom_position = DeriveZoom(state))

\* a zoom change alone triggers a send: the pan/tilt intent was sent in an
\* earlier event and has not changed
C15_Witness ==
    /\ pc = "send_zoom"
    /\ ev_pt = 0
    /\ sent_pt = PanTiltCommand
    /\ sent_zoom # None

(***************************************************************************)
(* C16: an event whose update derives what BridgeState already holds       *)
(* leaves BridgeState alone, hands nothing to the transport, does not      *)
(* sleep and goes straight back to waiting; the bridge sleeps for the      *)
(* minimum update interval only at the end of an event in which a change   *)
(* was detected.                                                           *)
(***************************************************************************)
C16_IdleEventNoEffect ==
    /\ [][(ev_same /\ pc \in Handled \cup {"pan_tilt"}) =>
            /\ UNCHANGED <<bridge_state, sent_pt, sent_zoom, ev_pt, ev_zoom, clock>>
            /\ transport' = transport
            /\ sleep_ms' = 0
            /\ pc' \in {"pan_tilt", "zoom", "throttle", "wait"}]_vars
    /\ [][(pc = "throttle" /\ pc' # "throttle") =>
            IF changes_detected
            THEN pc' = "sleep" /\ sleep_ms' = MIN_UPDATE_INTERVAL_MS
            ELSE pc' = "wait" /\ sleep_ms' = 0]_vars
    /\ [](pc = "throttle" => (changes_detected = ~ev_same))
    /\ [](pc = "throttle" => (changes_detected = (ev_pt + ev_zoom > 0)))
    /\ [](pc = "sleep" => (~ev_same /\ ev_pt + ev_zoom > 0))
    /\ [][pc' = "sleep" => pc \in {"throttle", "sleep"}]_vars

\* an event without change is over and the bridge waits again, commands of
\* both kinds having gone out in earlier events
C16_Witness ==
    /\ pc = "wait"
    /\ ev_same
    /\ sleep_ms = 0
    /\ sent_pt # NoCmd
    /\ sent_zoom # None

\* the intent derived from the last published JoystickState
LatestPanTilt == DerivePanTilt(latest)
LatestZoom == DeriveZoom(latest)

\* BridgeState holds the intent of the last published state and the bridge
\* waits, nothing unseen in the channel
Settled ==
    /\ pc = "wait"
    /\ ~unseen
    /\ PanTiltCommand = LatestPanTilt
    /\ last_zoom_position = LatestZoom

(***************************************************************************)
(* C17 as claimed: once the controller has published its last update, the  *)
(* bridge eventually reaches a state where BridgeState equals the intent   *)
(* derived from the last published state and the last pan-tilt and the     *)
(* last zoom command sent carry those values.                              *)
(***************************************************************************)
C17_Original ==
    (updates_left = 0) ~> (Settled /\ sent_pt = LatestPanTilt /\ sent_zoom = LatestZoom)

(***************************************************************************)
(* C17 amended: once the controller has published its last update, the     *)
(* bridge eventually settles: BridgeState equals the intent derived from   *)
(* the last published state, the last zoom command sent carries its zoom   *)
(* position, and the last pan-tilt command sent carries its pan/tilt       *)
(* values if any pan-tilt command was sent; none was sent only if that     *)
(* intent is the all-stop BridgeState started with.  Once settled, the     *)
(* bridge stays settled.                                                   *)
(***************************************************************************)
C17_Converges ==
    /\ (updates_left = 0) ~>
           /\ Settled
           /\ sent_zoom = LatestZoom
           /\ sent_pt \in {NoCmd, LatestPanTilt}
           /\ (sent_pt = NoCmd => LatestPanTilt.direction = "Stop")
    /\ [][(updates_left = 0 /\ Settled) => UNCHANGED vars]_vars

\* the bridge has settled on a moving intent after the last update
C17_Witness ==
    /\ updates_left = 0
    /\ Settled
    /\ sent_pt = LatestPanTilt
    /\ sent_pt.direction # "Stop"
    /\ sent_zoom = LatestZoom

\* the first event after the reconnect that followed a failed pan-tilt send,
\* its update still deriving the zoom position of the failed update
RecoversZoom ==
    /\ recovery = "first"
    /\ failed_cmd.kind = "pan_tilt"
    /\ DeriveZoom(state) = failed_zoom

(***************************************************************************)
(* C18 as claimed: the zoom change carried by an update whose pan-tilt     *)
(* send failed is sent on the first update processed after reconnecting:   *)
(* that event, its update still carrying the change, does not break off    *)
(* before the zoom command has gone out.                                   *)
(***************************************************************************)
C18_Original ==
    [][(RecoversZoom /\ failed_zoom # last_zoom_position
          /\ pc \in {"pan_tilt", "send_pan_tilt", "zoom"}) => pc' # "connect"]_vars

(***************************************************************************)
(* C18 amended: when the pan-tilt send fails, the pan/tilt fields hold the *)
(* undelivered intent and last_zoom_position is what it was before the     *)
(* event, the zoom not having been compared; it stays so until the next    *)
(* update is evaluated.  If the first update evaluated after reconnecting  *)
(* still derives that zoom position and the event reaches handle_zoom (its *)
(* own pan-tilt send, if any, succeeds), the zoom change is detected and   *)
(* sent then.  When the zoom send fails, last_zoom_position holds the      *)
(* undelivered position and the pan-tilt command of the event, if there    *)
(* was one, has been sent.                                                 *)
(***************************************************************************)
C18_AsymmetricFailure ==
    /\ [][(EmitsPanTilt /\ transport' = "failed") =>
            /\ PanTiltCommand = DerivePanTilt(state)
            /\ sent_pt' = PanTiltCommand
            /\ ev_zoom = 0
            /\ failed_zoom' = DeriveZoom(state)
            /\ UNCHANGED bridge_state]_vars
    /\ [][(recovery = "pending") => UNCHANGED bridge_state]_vars
    /\ [][(RecoversZoom /\ failed_zoom # last_zoom_position
              /\ pc = "zoom" /\ pc' # "zoom") =>
            /\ pc' = "send_zoom"
            /\ last_zoom_position' = failed_zoom]_vars
    /\ [][(RecoversZoom /\ EmitsZoom) => sent_zoom' = failed_zoom]_vars
    /\ [][(EmitsZoom /\ transport' = "failed") =>
            /\ last_zoom_position = DeriveZoom(state)
            /\ sent_zoom' = last_zoom_position
            /\ PanTiltCommand = DerivePanTilt(state)
            /\ (ev_pt = 1 => sent_pt = PanTiltCommand)
            /\ UNCHANGED bridge_state]_vars

\* the zoom change of the update whose pan-tilt send failed has gone out in
\* the first event after the reconnect
C18_Witness ==
    /\ pc = "throttle"
    /\ RecoversZoom
    /\ ev_zoom = 1
    /\ sent_zoom = failed_zoom

====
